---- MODULE Spec2Model ----
(***************************************************************************)
(* Model of AFQ/viz/fury_backend.py: the import of the module, the module  *)
(* global `size`, the scenes handed to and returned by the visualisation   *)
(* functions, and the order of the window / snapshot / record calls each   *)
(* function makes.  A scene is the sequence of the kinds of the actors     *)
(* added to it; the axes flipped in an actor's data are kept with the call *)
(* that built it.  Rendering attributes that no property below speaks      *)
(* about (background, colours, line widths, camera zoom) are not part of   *)
(* the state.                                                              *)
(***************************************************************************)
EXTENDS Integers, Sequences, FiniteSets, TLC

VARIABLES installed, imp, size, scenes, frame, vol, gif, trace

vars == <<installed, imp, size, scenes, frame, vol, gif, trace>>

----------------------------------------------------------------------------
(* Bounds of the model *)

MaxScenes == 2
MaxActors == 4
MaxBundles == 2
MaxPoints == 2
MaxFrames == 7

----------------------------------------------------------------------------
(* Values *)

\* figure=None, x=None, y=None: no scene and no slice index given
NoFigure == 0
NoSlice == -1

\* flip_axes=None, and flip_axes given as a list of three booleans
FlipNone == [isNone |-> TRUE, axes |-> <<>>]
FlipList(a) == [isNone |-> FALSE, axes |-> a]

NoExc == [type |-> "none", msg |-> <<>>]

Deps == {"dipy", "fury", "IPython"}

\* the result of vut.viz_import_msg_error("fury")
viz_import_msg_error(lib) == <<"viz_import_msg_error", lib>>

\* flip_axes values a caller passes: the documented None, or three booleans
FlipChoices == {FlipNone, FlipList(<<FALSE, FALSE, FALSE>>), FlipList(<<TRUE, FALSE, TRUE>>)}

\* shape of the volume handed to visualize_volume
Shape == <<2, 2, 2>>

\* opacities in tenths: the default 0.6 and the ends of the opacity slider
DefaultOpacity == 6
OpacityValues == {0, 10}

\* window sizes GetSize() can report: ShowManager(size=(1200, 900)) and a
\* resized window
WinSizes == {<<1200, 900>>, <<1500, 900>>}

\* the module has no global named size until visualize_volume binds one
Unbound == <<>>

----------------------------------------------------------------------------
(* Rationals <<p, q>>, q > 0, in lowest terms: the angles of create_gif *)

RECURSIVE Gcd(_, _)
Gcd(a, b) == IF b = 0 THEN a ELSE Gcd(b, a % b)

Rat(p, q) == LET g == Gcd(p, q) IN IF g = 0 THEN <<0, 1>> ELSE <<p \div g, q \div g>>

RatAdd(a, b) == Rat(a[1] * b[2] + b[1] * a[2], a[2] * b[2])

----------------------------------------------------------------------------
(* Import of the module, lines 7-16 *)

\* the import statements in order: what each needs installed, and whether
\* it stands inside the try block
ImportStmts ==
    << [line |-> 7,  module |-> "AFQ.viz.utils",            needs |-> {},               guarded |-> FALSE],
       [line |-> 9,  module |-> "dipy.tracking.streamline", needs |-> {"dipy"},         guarded |-> FALSE],
       [line |-> 12, module |-> "dipy.viz",                 needs |-> {"dipy", "fury"}, guarded |-> TRUE],
       [line |-> 13, module |-> "fury.colormap",            needs |-> {"fury"},         guarded |-> TRUE],
       [line |-> 14, module |-> "IPython.display",          needs |-> {"IPython"},      guarded |-> TRUE] >>

FirstFailing(inst) ==
    LET bad == {i \in DOMAIN ImportStmts : ~(ImportStmts[i].needs \subseteq inst)}
    IN IF bad = {} THEN 0 ELSE CHOOSE i \in bad : \A j \in bad : i <= j

RawImportError(i) ==
    [type |-> "ModuleNotFoundError", msg |-> <<"No module named", ImportStmts[i].module>>]

ImportModuleNoGuard(inst) ==
    LET i == FirstFailing(inst)
    IN IF i = 0 THEN [status |-> "ok", exc |-> NoExc]
       ELSE [status |-> "failed", exc |-> RawImportError(i)]

ImportModule(inst) ==
    LET i == FirstFailing(inst)
    IN IF i = 0 THEN [status |-> "ok", exc |-> NoExc]
       ELSE IF ImportStmts[i].guarded
            THEN [status |-> "failed",
                  exc |-> [type |-> "ImportError", msg |-> viz_import_msg_error("fury")]]
            ELSE [status |-> "failed", exc |-> RawImportError(i)]

----------------------------------------------------------------------------
(* Helpers on scenes and call frames *)

IdleFrame ==
    [fn |-> "none", pc |-> "idle", figure |-> NoFigure, scene |-> NoFigure,
     inline |-> FALSE, interact |-> FALSE, flip_axes |-> FlipNone,
     flipped |-> {}, ret |-> NoFigure, exc |-> "none", pre |-> <<>>, preCount |-> 0]

NoVol == [live |-> FALSE, sliders |-> FALSE, panel |-> FALSE, win_callback |-> FALSE,
          x |-> 0, y |-> 0, z |-> 0, opacity |-> 0, shift |-> 0]

\* what a create_gif call was given (arg_n, rotate_forward) and what it handed
\* to window.record (az_ang, n_frames) and to vut.gif_from_pngs (gif_frames)
NoGif == [live |-> FALSE, arg_n |-> 0, rotate_forward |-> FALSE, az_ang |-> <<0, 1>>,
          n_frames |-> 0, frames |-> <<>>, azimuth |-> <<0, 1>>, gif_frames |-> 0]

RECURSIVE SumLen(_, _)
SumLen(sc, i) == IF i = 0 THEN 0 ELSE Len(sc[i]) + SumLen(sc, i - 1)

TotalActors == SumLen(scenes, Len(scenes))

FigureArgs == {NoFigure} \cup (1 .. Len(scenes))

\* a call can start when the module is imported and no call is running
CanCall == imp.status = "ok" /\ frame.pc = "idle"

\* room for the scene and the actors a call creates
Room(figure, n) ==
    /\ figure = NoFigure => Len(scenes) < MaxScenes
    /\ TotalActors + n <= MaxActors

FigureAlwaysNew(figure) == Len(scenes) + 1

\* if figure is None: figure = window.Scene()
FigureOf(figure) == IF figure = NoFigure THEN Len(scenes) + 1 ELSE figure

ScenesFor(fig) == IF fig > Len(scenes) THEN Append(scenes, <<>>) ELSE scenes

Add(sc, fig, actors) == [sc EXCEPT ![fig] = @ \o actors]

\* the actors of the scene the caller passed, as they are when the call starts
ActorsBefore(figure) == IF figure = NoFigure THEN <<>> ELSE scenes[figure]

Repeat(x, n) == [i \in 1 .. n |-> x]

\* the axes (0, 1, 2) a flip_axes list flips
Flips(flip_axes) == {i \in 0 .. 2 : flip_axes.axes[i + 1]}

StartFrame(fn, figure, fig, inline, interact, flip_axes) ==
    [fn |-> fn, pc |-> "running", figure |-> figure, scene |-> fig,
     inline |-> inline, interact |-> interact, flip_axes |-> flip_axes,
     flipped |-> {}, ret |-> NoFigure, exc |-> "none",
     pre |-> ActorsBefore(figure), preCount |-> Len(scenes)]

\* the axes the call flipped in the data of the actors it built
Flipped(f, flip_axes) == [f EXCEPT !.flipped = Flips(flip_axes)]

Finish(f, r) == [f EXCEPT !.pc = r.pc, !.ret = r.ret]

Raise(f, e) == [f EXCEPT !.pc = "raised", !.exc = e]

----------------------------------------------------------------------------
(* _inline_interact, lines 21-36 *)

inline_interact_snapshot_always(scene, inline, tr) ==
    [pc |-> "done", ret |-> scene, trace |-> tr \o <<"window.snapshot", "display_png">>]

\* lines 29-36: the inline snapshot and the return
inline_interact_inline(scene, inline, tr) ==
    [pc |-> "done", ret |-> scene,
     trace |-> IF inline THEN tr \o <<"window.snapshot", "display_png">> ELSE tr]

\* lines 25-27: window.show(scene) blocks until the window is closed
inline_interact(scene, inline, interact, tr) ==
    IF interact
    THEN [pc |-> "show", ret |-> NoFigure, trace |-> tr \o <<"window.show">>]
    ELSE inline_interact_inline(scene, inline, tr)

----------------------------------------------------------------------------
(* Initial state: the module is about to be imported into an interpreter   *)
(* with some of the three packages installed                               *)

Init ==
    /\ installed \in SUBSET Deps
    /\ imp = [status |-> "not_imported", exc |-> NoExc]
    /\ size = Unbound
    /\ scenes = <<>>
    /\ frame = IdleFrame
    /\ vol = NoVol
    /\ gif = NoGif
    /\ trace = <<>>

\* lines 1-18: executing the module body
Import ==
    /\ imp.status = "not_imported"
    /\ imp' = ImportModule(installed)
    /\ UNCHANGED <<installed, size, scenes, frame, vol, gif, trace>>

----------------------------------------------------------------------------
(* The functions *)

\* _inline_interact(scene, inline, interact) called on its own
CallInlineInteract(scene, inline, interact) ==
    /\ CanCall
    /\ scene \in 1 .. Len(scenes)
    /\ LET r == inline_interact(scene, inline, interact, <<>>)
       IN /\ frame' = Finish(StartFrame("_inline_interact", scene, scene, inline,
                                        interact, FlipNone), r)
          /\ trace' = r.trace
    /\ vol' = NoVol
    /\ gif' = NoGif
    /\ UNCHANGED <<installed, imp, size, scenes>>

\* visualize_bundles, lines 106-132; nb is the number of bundles that
\* vut.tract_generator yields, each becoming one line actor
visualize_bundles(figure, nb, flip_axes, inline, interact) ==
    /\ CanCall
    /\ ~flip_axes.isNone
    /\ Room(figure, nb)
    /\ LET fig == FigureOf(figure)
           r == inline_interact(fig, inline, interact, <<>>)
       IN /\ scenes' = Add(ScenesFor(fig), fig, Repeat("line", nb))
          /\ frame' = Finish(Flipped(StartFrame("visualize_bundles", figure, fig, inline,
                                                interact, flip_axes), flip_axes), r)
          /\ trace' = r.trace
    /\ vol' = NoVol
    /\ gif' = NoGif
    /\ UNCHANGED <<installed, imp, size>>

\* visualize_roi, lines 253-264: enumerate(flip_axes) raises TypeError when
\* flip_axes is None, before a scene is created or touched
visualize_roi(figure, flip_axes, inline, interact) ==
    /\ CanCall
    /\ Room(figure, 1)
    /\ IF flip_axes.isNone
       THEN /\ frame' = Raise(StartFrame("visualize_roi", figure, figure, inline,
                                         interact, flip_axes), "TypeError")
            /\ trace' = <<>>
            /\ UNCHANGED scenes
       ELSE LET fig == FigureOf(figure)
                r == inline_interact(fig, inline, interact, <<>>)
            IN /\ scenes' = Add(ScenesFor(fig), fig, <<"roi">>)
               /\ frame' = Finish(Flipped(StartFrame("visualize_roi", figure, fig, inline,
                                                     interact, flip_axes), flip_axes), r)
               /\ trace' = r.trace
    /\ vol' = NoVol
    /\ gif' = NoGif
    /\ UNCHANGED <<installed, imp, size>>

\* int(np.round(n / 2)): numpy rounds a half to the even neighbour
HalfRounded(n) ==
    IF n % 2 = 0 THEN n \div 2
    ELSE IF (n \div 2) % 2 = 0 THEN n \div 2 ELSE n \div 2 + 1

\* visualize_volume up to its first blocking call, lines 301-446.  With
\* interact the sliders, the panel and win_callback are built, the module
\* global size is bound (line 426) and show_m.start() blocks; without it
\* the function runs through to _inline_interact.  flip_axes and z are
\* accepted and not used.
visualize_volume(figure, x, y, inline, interact) ==
    /\ CanCall
    /\ Room(figure, IF interact THEN 4 ELSE 3)
    /\ LET fig == FigureOf(figure)
           slicers == <<"slicer_z", "slicer_x", "slicer_y">>
           f == StartFrame("visualize_volume", figure, fig, inline, interact, FlipNone)
           v == [live |-> TRUE, sliders |-> interact, panel |-> interact,
                 win_callback |-> interact,
                 x |-> IF x = NoSlice THEN HalfRounded(Shape[1]) ELSE x,
                 y |-> IF y = NoSlice THEN HalfRounded(Shape[2]) ELSE y,
                 z |-> Shape[3] \div 2,
                 opacity |-> DefaultOpacity, shift |-> 0]
       IN /\ vol' = v
          /\ IF interact
             THEN /\ scenes' = Add(ScenesFor(fig), fig, slicers \o <<"panel">>)
                  /\ \E s \in WinSizes : size' = s
                  /\ frame' = [f EXCEPT !.pc = "show_m"]
                  /\ trace' = <<"show_m.start">>
             ELSE LET r == inline_interact(fig, inline, interact, <<>>)
                  IN /\ scenes' = Add(ScenesFor(fig), fig, slicers)
                     /\ size' = size
                     /\ frame' = Finish(f, r)
                     /\ trace' = r.trace
    /\ gif' = NoGif
    /\ UNCHANGED <<installed, imp>>

\* win_callback(obj, event), lines 428-434, fires on the window of show_m
win_callback(objSize) ==
    /\ frame.pc = "show_m"
    /\ vol.win_callback
    /\ size # objSize
    /\ size' = objSize
    /\ vol' = [vol EXCEPT !.shift = @ + (objSize[1] - size[1])]
    /\ UNCHANGED <<installed, imp, scenes, frame, gif, trace>>

InSession == frame.fn = "visualize_volume" /\ frame.pc \in {"show_m", "show"} /\ vol.sliders

\* change_slice_z(slider), lines 363-366
change_slice_z(value) ==
    /\ InSession
    /\ vol.z # value
    /\ vol' = [vol EXCEPT !.z = value]
    /\ UNCHANGED <<installed, imp, size, scenes, frame, gif, trace>>

\* change_slice_x(slider), lines 368-371
change_slice_x(value) ==
    /\ InSession
    /\ vol.x # value
    /\ vol' = [vol EXCEPT !.x = value]
    /\ UNCHANGED <<installed, imp, size, scenes, frame, gif, trace>>

\* change_slice_y(slider), lines 373-376
change_slice_y(value) ==
    /\ InSession
    /\ vol.y # value
    /\ vol' = [vol EXCEPT !.y = value]
    /\ UNCHANGED <<installed, imp, size, scenes, frame, gif, trace>>

\* change_opacity(slider), lines 378-382: slicer_opacity is a local of the
\* callback; the three image actors take the slider's value
change_opacity(value) ==
    /\ InSession
    /\ vol.opacity # value
    /\ vol' = [vol EXCEPT !.opacity = value]
    /\ UNCHANGED <<installed, imp, size, scenes, frame, gif, trace>>

\* show_m.start() returns when its window is closed; line 446 then calls
\* _inline_interact(figure, inline, interact)
CloseShowManager ==
    /\ frame.pc = "show_m"
    /\ LET r == inline_interact(frame.scene, frame.inline, frame.interact,
                                trace \o <<"show_m.end">>)
       IN /\ frame' = Finish(frame, r)
          /\ trace' = r.trace
    /\ UNCHANGED <<installed, imp, size, scenes, vol, gif>>

\* window.show(scene) returns when its window is closed; _inline_interact
\* goes on with line 29
CloseShow ==
    /\ frame.pc = "show"
    /\ LET r == inline_interact_inline(frame.scene, frame.inline,
                                       trace \o <<"window.show.end">>)
       IN /\ frame' = Finish(frame, r)
          /\ trace' = r.trace
    /\ UNCHANGED <<installed, imp, size, scenes, vol, gif>>

----------------------------------------------------------------------------
(* create_gif, lines 178-188 *)

az_ang_floor(n_frames) == Rat(360 \div n_frames, 1)

\* az_ang=360.0 / n_frames
az_ang(n_frames) == Rat(360, n_frames)

\* window.record(figure, az_ang=..., n_frames=...): n_frames frames, the
\* camera turned by az_ang after each; the azimuths the frames are taken at
RECURSIVE RecordFrames(_, _, _)
RecordFrames(az, step, n) ==
    IF n = 0 THEN <<>> ELSE <<az>> \o RecordFrames(RatAdd(az, step), step, n - 1)

RECURSIVE Turned(_, _, _)
Turned(az, step, n) == IF n = 0 THEN az ELSE Turned(RatAdd(az, step), step, n - 1)

\* scene_rotate_forward, lines 135-139
scene_rotate_forward == <<"elevation", "set_camera", "reset_camera">>

create_gif(figure, n_frames, rotate_forward) ==
    /\ CanCall
    /\ figure \in 1 .. Len(scenes)
    /\ LET f == StartFrame("create_gif", figure, figure, FALSE, FALSE, FlipNone)
           rot == IF rotate_forward THEN scene_rotate_forward ELSE <<>>
       IN IF n_frames = 0
          THEN /\ frame' = Raise(f, "ZeroDivisionError")
               /\ trace' = rot
               /\ gif' = [NoGif EXCEPT !.live = TRUE, !.rotate_forward = rotate_forward]
          ELSE LET step == az_ang(n_frames)
               IN /\ frame' = [f EXCEPT !.pc = "done"]
                  /\ trace' = rot \o <<"window.record", "gif_from_pngs">>
                  /\ gif' = [live |-> TRUE, arg_n |-> n_frames,
                             rotate_forward |-> rotate_forward, az_ang |-> step,
                             n_frames |-> n_frames,
                             frames |-> RecordFrames(<<0, 1>>, step, n_frames),
                             azimuth |-> Turned(<<0, 1>>, step, n_frames),
                             gif_frames |-> n_frames]
    /\ vol' = NoVol
    /\ UNCHANGED <<installed, imp, size, scenes>>

----------------------------------------------------------------------------
(* single_bundle_viz and _draw_core, lines 449-500 and 560-572 *)

\* n_points = len(indiv_profile); set_number_of_points needs at least two
\* points, and with one point line 480 reads direc_adjust unbound
single_bundle_viz(figure, n_points, flip_axes) ==
    /\ CanCall
    /\ ~flip_axes.isNone
    /\ Room(figure, 1)
    /\ LET fig == FigureOf(figure)
           f == StartFrame("single_bundle_viz", figure, fig, FALSE, FALSE, flip_axes)
       IN IF n_points < 2
          THEN /\ frame' = Raise(f, "ValueError")
               /\ UNCHANGED scenes
          ELSE /\ scenes' = Add(ScenesFor(fig), fig, <<"core">>)
               /\ frame' = [Flipped(f, flip_axes) EXCEPT !.pc = "done", !.ret = fig]
    /\ trace' = <<>>
    /\ vol' = NoVol
    /\ gif' = NoGif
    /\ UNCHANGED <<installed, imp, size>>

----------------------------------------------------------------------------

\* the call is over: the caller has the result or the exception, and the
\* locals and closures of the call are gone
Return ==
    /\ frame.pc \in {"done", "raised"}
    /\ frame' = IdleFrame
    /\ vol' = NoVol
    /\ gif' = NoGif
    /\ trace' = <<>>
    /\ UNCHANGED <<installed, imp, size, scenes>>

Next ==
    \/ Import
    \/ \E s \in 1 .. MaxScenes, il \in BOOLEAN, ia \in BOOLEAN : CallInlineInteract(s, il, ia)
    \/ \E fg \in FigureArgs, nb \in 1 .. MaxBundles, fl \in FlipChoices,
          il \in BOOLEAN, ia \in BOOLEAN : visualize_bundles(fg, nb, fl, il, ia)
    \/ \E fg \in FigureArgs, fl \in FlipChoices, il \in BOOLEAN, ia \in BOOLEAN :
          visualize_roi(fg, fl, il, ia)
    \/ \E fg \in FigureArgs, x \in {NoSlice, 0}, y \in {NoSlice, 0},
          il \in BOOLEAN, ia \in BOOLEAN : visualize_volume(fg, x, y, il, ia)
    \/ \E s \in WinSizes : win_callback(s)
    \/ \E v \in 0 .. Shape[3] - 1 : change_slice_z(v)
    \/ \E v \in 0 .. Shape[1] - 1 : change_slice_x(v)
    \/ \E v \in 0 .. Shape[2] - 1 : change_slice_y(v)
    \/ \E v \in OpacityValues : change_opacity(v)
    \/ CloseShowManager
    \/ CloseShow
    \/ \E fg \in FigureArgs, n \in 0 .. MaxFrames, rf \in BOOLEAN : create_gif(fg, n, rf)
    \/ \E fg \in FigureArgs, n \in 1 .. MaxPoints, fl \in FlipChoices :
          single_bundle_viz(fg, n, fl)
    \/ Return

Spec == Init /\ [][Next]_vars

----------------------------------------------------------------------------
(* Properties *)

Count(e) == Cardinality({i \in DOMAIN trace : trace[i] = e})

Idx(e) == CHOOSE i \in DOMAIN trace : trace[i] = e

Before(a, b) == Idx(a) < Idx(b)

Guidance == [type |-> "ImportError", msg |-> <<"viz_import_msg_error", "fury">>]

Imported == imp.status # "not_imported"

\* C1 as stated: importing with any one of dipy, fury, IPython missing
\* fails with the ImportError that carries the guidance message.
C1_AnyMissingGivesGuidance ==
    (Imported /\ installed # Deps) => (imp.status = "failed" /\ imp.exc = Guidance)

\* C1, amended: with dipy installed, a missing fury or IPython makes the
\* import fail with the ImportError carrying the guidance message; with dipy
\* missing, the unguarded import of line 9 fails with its own
\* ModuleNotFoundError and no guidance; with all three installed the import
\* succeeds.
C1_GuardedMissingGivesGuidance ==
    Imported =>
        /\ ("dipy" \in installed /\ installed # Deps)
               => (imp.status = "failed" /\ imp.exc = Guidance)
        /\ "dipy" \notin installed
               => (imp.status = "failed" /\ imp.exc.type = "ModuleNotFoundError"
                   /\ imp.exc # Guidance)
        /\ installed = Deps => imp.status = "ok"

C1_Witness == imp.status = "failed" /\ "dipy" \in installed /\ "fury" \notin installed

\* C2: after any sequence of calls and UI events the module-level state is
\* what it was right after import (no global named size is bound).
C2_ModuleStateAsAfterImport == imp.status = "ok" => size = Unbound

SceneFns == {"visualize_bundles", "visualize_roi", "visualize_volume", "single_bundle_viz"}

\* the actors a returned call is to have added, by function
C3_NewActors(f, new) ==
    CASE f.fn = "visualize_bundles" -> Len(new) >= 1 /\ \A i \in DOMAIN new : new[i] = "line"
      [] f.fn = "visualize_roi" -> new = <<"roi">>
      [] f.fn = "visualize_volume" ->
             /\ Len(new) >= 3
             /\ SubSeq(new, 1, 3) = <<"slicer_z", "slicer_x", "slicer_y">>
             /\ \A i \in 4 .. Len(new) : new[i] = "panel"
      [] f.fn = "single_bundle_viz" -> new = <<"core">>

\* C3: a returned call of the four scene functions returns the scene it was
\* passed, with the actors it had before still in it and the new actors of
\* the call added; with figure None it returns a scene that did not exist
\* before, holding the new actors.
C3_SceneKeptAndReturned ==
    (frame.pc = "done" /\ frame.fn \in SceneFns) =>
        IF frame.figure # NoFigure
        THEN /\ frame.ret = frame.figure
             /\ Len(scenes) = frame.preCount
             /\ Len(scenes[frame.ret]) >= Len(frame.pre)
             /\ SubSeq(scenes[frame.ret], 1, Len(frame.pre)) = frame.pre
             /\ C3_NewActors(frame, SubSeq(scenes[frame.ret], Len(frame.pre) + 1,
                                          Len(scenes[frame.ret])))
        ELSE /\ frame.ret = frame.preCount + 1
             /\ Len(scenes) = frame.preCount + 1
             /\ C3_NewActors(frame, scenes[frame.ret])

C3_Witness ==
    /\ frame.pc = "done"
    /\ frame.fn = "visualize_volume"
    /\ frame.figure # NoFigure
    /\ Len(frame.pre) > 0

\* C4: a visualize_roi call that leaves flip_axes at None completes without
\* raising, adds the unflipped ROI contour and returns the scene.
C4_NoneFlipAxesAccepted ==
    (frame.fn = "visualize_roi" /\ frame.flip_axes.isNone /\ frame.pc \in {"done", "raised"}) =>
        /\ frame.pc = "done"
        /\ frame.ret = frame.scene
        /\ frame.flipped = {}

Sessions == Count("show_m.start") + Count("window.show")

\* C5: a returned visualize_volume call has run exactly one interactive
\* session if interact is true, and with interact false has run none and
\* has built no slider, panel or window callback.
C5_OneSessionIffInteract ==
    (frame.fn = "visualize_volume" /\ frame.pc = "done") =>
        IF frame.interact
        THEN Sessions = 1
        ELSE Sessions = 0 /\ ~vol.sliders /\ ~vol.panel /\ ~vol.win_callback

\* C6: a create_gif call with n_frames >= 1 records exactly n_frames
\* frames, az_ang apart with az_ang = 360 / n_frames, frame i at
\* (i - 1) * 360 / n_frames, the n_frames turns adding up to 360 degrees;
\* the scene is rotated forward, before recording, exactly when
\* rotate_forward is true; and the GIF is assembled after recording from
\* the same number of frames.
C6_FramesEvenOverFullTurn ==
    (frame.fn = "create_gif" /\ frame.pc = "done") =>
        /\ gif.arg_n >= 1
        /\ gif.n_frames = gif.arg_n
        /\ Len(gif.frames) = gif.arg_n
        /\ gif.az_ang[1] * gif.arg_n = 360 * gif.az_ang[2]
        /\ \A i \in DOMAIN gif.frames :
               gif.frames[i][1] * gif.arg_n = 360 * (i - 1) * gif.frames[i][2]
        /\ gif.azimuth = <<360, 1>>
        /\ gif.rotate_forward <=> Count("elevation") = 1
        /\ ~gif.rotate_forward => Count("elevation") = 0
        /\ gif.rotate_forward => Before("elevation", "window.record")
        /\ Count("window.record") = 1
        /\ Count("gif_from_pngs") = 1
        /\ Before("window.record", "gif_from_pngs")
        /\ gif.gif_frames = gif.n_frames

C6_Witness ==
    /\ frame.fn = "create_gif"
    /\ frame.pc = "done"
    /\ gif.arg_n = 7
    /\ gif.rotate_forward

InlineInteractCallers ==
    {"_inline_interact", "visualize_bundles", "visualize_roi", "visualize_volume"}

\* C7: _inline_interact shows the interactive window iff interact, takes
\* and displays the snapshot iff inline, has closed the window before it
\* takes the snapshot, does neither when both flags are false, and returns
\* the scene it was given.
C7_InlineInteract ==
    /\ (frame.pc = "show" /\ frame.fn \in InlineInteractCallers) =>
           /\ frame.interact
           /\ Count("window.snapshot") = 0
           /\ Count("display_png") = 0
    /\ (frame.pc = "done" /\ frame.fn \in InlineInteractCallers) =>
           /\ Count("window.show") = (IF frame.interact THEN 1 ELSE 0)
           /\ Count("window.show.end") = Count("window.show")
           /\ Count("window.snapshot") = (IF frame.inline THEN 1 ELSE 0)
           /\ Count("display_png") = (IF frame.inline THEN 1 ELSE 0)
           /\ frame.inline => Before("window.snapshot", "display_png")
           /\ (frame.interact /\ frame.inline) =>
                  /\ Before("window.show", "window.show.end")
                  /\ Before("window.show.end", "window.snapshot")
           /\ frame.ret = frame.scene

C7_Witness ==
    /\ frame.pc = "done"
    /\ frame.fn = "_inline_interact"
    /\ frame.interact
    /\ frame.inline
    /\ Count("window.show.end") = 1

====
